---------------------------- MODULE Spec2Model ----------------------------
(***************************************************************************)
(* A model of the marker HUD of the panorama viewer, PSVHUD                *)
(* (src/src/js/components/PSVHUD.js, the definitions in force: lines       *)
(* 506-1216, which redefine the ones of lines 6-499).                      *)
(*                                                                         *)
(* Conventions of the model                                                *)
(*  - angles are whole degrees; 2*pi is 360.                               *)
(*  - a THREE.Vector3 is a triple of integers giving the DIRECTION of the  *)
(*    vector: a positive multiple of the unit vector.  The sign of a dot   *)
(*    product and the direction of a cross product are exact.              *)
(*  - a marker object lives in `heap` under an instance number as long as  *)
(*    the program can reach it; a new object takes the least number that   *)
(*    is free.  0 is null.  `markers` maps an id to its instance.          *)
(*  - the field visible of a marker is the truthiness of marker.visible    *)
(*    (toggleMarker's ^= stores the numbers 1 and 0).                      *)
(***************************************************************************)
EXTENDS Integers, Sequences, FiniteSets, TLC

VARIABLES
  markers,         \* this.markers : id -> instance number
  heap,            \* the PSVMarker objects still referenced : instance -> fields
  container,       \* children of this.container that are marker elements
  svg,             \* children of this.$svg
  currentMarker,   \* this.currentMarker (0 = null)
  hoveringMarker,  \* this.hoveringMarker (0 = null)
  prop,            \* this.prop : fovBounds and frustrumPoints
  psvProp,         \* psv.prop : longitude, latitude, hFov, vFov, size
  tooltip,         \* state of psv.tooltip
  panel,           \* state of psv.panel
  ret              \* outcome of the last call or event

vars == << markers, heap, container, svg, currentMarker,
           hoveringMarker, prop, psvProp, tooltip, panel, ret >>

-----------------------------------------------------------------------------
(* Bounds of the model *)

\* the number of camera positions the renders take
NumCameras == 2

-----------------------------------------------------------------------------
(* JavaScript values *)

NaN == 777777
PosInf == 999999
NegInf == -999999

IsNum(x) == x # NaN /\ x # PosInf /\ x # NegInf

\* number + number, for the operands the HUD produces
JsAdd(a, b) ==
  IF a = NaN \/ b = NaN THEN NaN ELSE a + b

JsSub(a, b) ==
  IF a = NaN \/ b = NaN THEN NaN
  ELSE IF a = NegInf /\ b = PosInf THEN NegInf
  ELSE a - b

\* a >= b and a <= b of JavaScript: false when an operand is NaN
JsGe(a, b) == a # NaN /\ b # NaN /\ a >= b

JsLe(a, b) == a # NaN /\ b # NaN /\ a <= b

\* Math.min / Math.max
JsMin(a, b) == IF a = NaN \/ b = NaN THEN NaN ELSE IF a <= b THEN a ELSE b

JsMax(a, b) == IF a = NaN \/ b = NaN THEN NaN ELSE IF a >= b THEN a ELSE b

\* the truthiness of v ^ true, the value toggleMarker stores
XorTrue(v) == ~v

Abs(x) == IF x < 0 THEN -x ELSE x

\* parseInt of a quotient n/d: truncation toward zero; NaN for x/0
TruncDiv(n, d) ==
  IF d = 0 THEN NaN
  ELSE IF (n >= 0) = (d > 0) THEN Abs(n) \div Abs(d)
  ELSE -(Abs(n) \div Abs(d))

-----------------------------------------------------------------------------
(* Vectors *)

Zero3 == << 0, 0, 0 >>

Dot(a, b) == a[1] * b[1] + a[2] * b[2] + a[3] * b[3]

Cross(a, b) ==
  << a[2] * b[3] - a[3] * b[2],
     a[3] * b[1] - a[1] * b[3],
     a[1] * b[2] - a[2] * b[1] >>

RECURSIVE Gcd(_, _)
Gcd(a, b) == IF b = 0 THEN a ELSE Gcd(b, a % b)

\* the division normalize makes, by g (0 for the zero vector, which stays)
DivideScalar(v, g) ==
  IF g = 0 THEN Zero3
  ELSE << TruncDiv(v[1], g), TruncDiv(v[2], g), TruncDiv(v[3], g) >>

\* THREE.Vector3.normalize: the same direction (here: the shortest integer
\* vector of that direction); the zero vector stays the zero vector
Normalize(v) == DivideScalar(v, Gcd(Gcd(Abs(v[1]), Abs(v[2])), Abs(v[3])))

Negate(v) == << -v[1], -v[2], -v[3] >>

-----------------------------------------------------------------------------
(* The viewer: psv.prop and the conversions the HUD calls *)

\* 10 * cos and 10 * sin of the multiples of 45 degrees (7 stands for 7.07)
Cos10(a) ==
  CASE a % 360 = 0 -> 10
    [] a % 360 = 45 -> 7
    [] a % 360 = 90 -> 0
    [] a % 360 = 135 -> -7
    [] a % 360 = 180 -> -10
    [] a % 360 = 225 -> -7
    [] a % 360 = 270 -> 0
    [] a % 360 = 315 -> 7

Sin10(a) == Cos10(a + 270)

\* PSVUtils.parseAngle: the angle brought into [0, 2*pi)
ParseAngle(a) == a % 360

\* psv.sphericalCoordsToVector3(longitude, latitude)
SphericalCoordsToVector3(longitude, latitude) ==
  Normalize(<< -(Cos10(latitude) * Sin10(longitude)),
               10 * Sin10(latitude),
               Cos10(latitude) * Cos10(longitude) >>)

\* psv.prop.direction: where the camera looks
Direction(p) == SphericalCoordsToVector3(p.longitude, p.latitude)

\* psv.vector3ToViewerCoords(vector): the perspective projection of the
\* camera (a horizontal and vertical field of view of 90 degrees), in pixels
\* the camera looks along d with r to its right and u above: w, x and y are
\* the components of the vector along d, r and u
ViewerCoords(w, x, y, size) ==
  [ top  |-> TruncDiv(size.height * (w - y), 2 * w),
    left |-> TruncDiv(size.width * (w + x), 2 * w) ]

CameraCoords(v, d, r, size) ==
  ViewerCoords(Dot(v, d), Dot(v, r), Dot(v, Cross(r, d)), size)

CameraRight(p) ==
  Normalize(<< -Cos10(p.longitude), 0, -Sin10(p.longitude) >>)

Vector3ToViewerCoords(v, p) ==
  CameraCoords(v, Direction(p), CameraRight(p), p.size)

\* the states of psv.prop the renders take: the camera looks along the
\* equator at a multiple of 90 degrees
Cameras ==
  { [ longitude |-> 90 * k, latitude |-> 0, hFov |-> 90, vFov |-> 90,
      size |-> [ width |-> 8, height |-> 8 ] ] : k \in 0 .. NumCameras - 1 }

-----------------------------------------------------------------------------
(* Markers *)

NoText == "none"

\* the marker properties the callers pass (without the id): point markers
\* carry position3D, polygon markers positions3D and polygon_rad
\* (<<latitude, longitude>> of each vertex)
Catalogue ==
  << [ kind |-> "point", position3D |-> << 0, 0, 1 >>,
       positions3D |-> << >>, polygon_rad |-> << >>,
       width |-> 2, height |-> 2, anchor |-> [ top |-> 0, left |-> 0 ],
       dynamicSize |-> FALSE, visible |-> TRUE,
       tooltip |-> "tip1", content |-> "content1" ],
     [ kind |-> "point", position3D |-> << -2, 0, 1 >>,
       positions3D |-> << >>, polygon_rad |-> << >>,
       width |-> 4, height |-> 2, anchor |-> [ top |-> 0, left |-> 0 ],
       dynamicSize |-> FALSE, visible |-> TRUE,
       tooltip |-> NoText, content |-> NoText ],
     [ kind |-> "point", position3D |-> << 2, 0, 1 >>,
       positions3D |-> << >>, polygon_rad |-> << >>,
       width |-> 0, height |-> 0, anchor |-> [ top |-> 1, left |-> 1 ],
       dynamicSize |-> TRUE, visible |-> FALSE,
       tooltip |-> "tip3", content |-> NoText ],
     [ kind |-> "polygon", position3D |-> Zero3,
       positions3D |-> << << 0, 0, 1 >>, << -1, 0, 2 >>, << 0, 1, 2 >> >>,
       polygon_rad |-> << << 0, 0 >>, << 0, 27 >>, << 27, 0 >> >>,
       width |-> 0, height |-> 0, anchor |-> [ top |-> 0, left |-> 0 ],
       dynamicSize |-> FALSE, visible |-> TRUE,
       tooltip |-> "tip4", content |-> NoText ],
     [ kind |-> "polygon", position3D |-> Zero3,
       positions3D |-> << << 0, 0, 1 >>, << -1, 0, 2 >>, << -2, 0, 1 >>,
                          << -2, 1, 1 >> >>,
       polygon_rad |-> << << 0, 0 >>, << 0, 27 >>, << 0, 63 >>, << 24, 63 >> >>,
       width |-> 0, height |-> 0, anchor |-> [ top |-> 0, left |-> 0 ],
       dynamicSize |-> FALSE, visible |-> TRUE,
       tooltip |-> NoText, content |-> "content5" ] >>

Templates == 1 .. Len(Catalogue)

\* the size getBoundingClientRect reports for the element of a marker of
\* dynamic size
RenderedSize(tpl) == [ width |-> 2, height |-> 2 ]

Null2D == [ isNull |-> TRUE, top |-> 0, left |-> 0 ]

Pos2D(top, left) == [ isNull |-> FALSE, top |-> top, left |-> left ]

\* new PSVMarker(properties, psv)
NewMarker(properties) ==
  [ id         |-> properties.id,
    tpl        |-> properties.tpl,
    visible    |-> Catalogue[properties.tpl].visible,
    width      |-> Catalogue[properties.tpl].width,
    height     |-> Catalogue[properties.tpl].height,
    position2D |-> Null2D,
    cls        |-> FALSE,
    points     |-> << >> ]

\* marker.isPolygon() and marker.isNormal()
IsPolygon(marker) == Catalogue[marker.tpl].kind = "polygon"

IsNormal(marker) == ~IsPolygon(marker)

\* marker.update(input): the properties of the input replace the marker's;
\* the kind of a marker does not change
MarkerUpdate(marker, input) ==
  IF input.tpl \in Templates
       /\ Catalogue[input.tpl].kind = Catalogue[marker.tpl].kind
  THEN [ marker EXCEPT !.tpl = input.tpl,
                       !.visible = Catalogue[input.tpl].visible,
                       !.width = Catalogue[input.tpl].width,
                       !.height = Catalogue[input.tpl].height ]
  ELSE marker

-----------------------------------------------------------------------------
(* The projection pass: updatePositions and what it calls *)

NoBounds ==
  [ defined |-> FALSE, longitude1 |-> 0, longitude2 |-> 0,
    latitude1 |-> 0, latitude2 |-> 0, latitudeCrossOrigin |-> FALSE ]

\* this.prop.fovBounds as updatePositions sets it
FovBounds(p) ==
  [ defined    |-> TRUE,
    longitude1 |-> ParseAngle(p.longitude - p.hFov \div 2),
    longitude2 |-> ParseAngle(p.longitude + p.hFov \div 2),
    latitude1  |-> p.latitude - p.vFov \div 2,
    latitude2  |-> p.latitude + p.vFov \div 2,
    latitudeCrossOrigin |->
      (p.latitude - p.vFov \div 2) > (p.latitude + p.vFov \div 2) ]

\* this.prop.frustrumPoints as updatePositions sets it
FrustrumPoints(b) ==
  << SphericalCoordsToVector3(b.longitude1, b.latitude2),
     SphericalCoordsToVector3(b.longitude2, b.latitude2),
     SphericalCoordsToVector3(b.longitude2, b.latitude1),
     SphericalCoordsToVector3(b.longitude1, b.latitude1) >>

PropOfBounds(b) == [ fovBounds |-> b, frustrumPoints |-> FrustrumPoints(b) ]

PropAfterPass(p) == PropOfBounds(FovBounds(p))

\* _isMarkerVisible without its test of the dot product
IsMarkerVisibleNoDot(marker, position, p) ==
  /\ marker.visible
  /\ JsGe(JsAdd(position.left, marker.width), 0)
  /\ JsLe(JsSub(position.left, marker.width), p.size.width)
  /\ JsGe(JsAdd(position.top, marker.height), 0)
  /\ JsLe(JsSub(position.top, marker.height), p.size.height)

\* _isMarkerVisible
IsMarkerVisible(marker, position, p) ==
  /\ marker.visible
  /\ Dot(Catalogue[marker.tpl].position3D, Direction(p)) > 0
  /\ JsGe(JsAdd(position.left, marker.width), 0)
  /\ JsLe(JsSub(position.left, marker.width), p.size.width)
  /\ JsGe(JsAdd(position.top, marker.height), 0)
  /\ JsLe(JsSub(position.top, marker.height), p.size.height)

\* _isPolygonVisible: its first statement is `return true`
IsPolygonVisible(marker, positions, p) == TRUE

\* the writes of _getMarkerPosition to marker.width and marker.height
MeasuredMarker(marker) ==
  IF Catalogue[marker.tpl].dynamicSize
  THEN [ marker EXCEPT !.width = RenderedSize(marker.tpl).width,
                       !.height = RenderedSize(marker.tpl).height ]
  ELSE marker

\* position.top -= marker.height * marker.anchor.top, and so for left
Anchored(m, position) ==
  [ top  |-> JsSub(position.top, m.height * Catalogue[m.tpl].anchor.top),
    left |-> JsSub(position.left, m.width * Catalogue[m.tpl].anchor.left) ]

\* _getMarkerPosition on a marker whose size is set
MeasuredPosition(m, p) ==
  Anchored(m, Vector3ToViewerCoords(Catalogue[m.tpl].position3D, p))

\* _getMarkerPosition: the position it returns
GetMarkerPosition(marker, p) == MeasuredPosition(MeasuredMarker(marker), p)

\* an inclusion test without the branch of the window that crosses the origin
InFovNoSeam(pos, b) ==
  /\ pos[1] > b.latitude1 /\ pos[1] < b.latitude2
  /\ pos[2] > b.longitude1 /\ pos[2] < b.longitude2

\* the inclusion test of _getPolygonPositions on pos = <<latitude, longitude>>
InFov(pos, b) ==
  /\ pos[1] > b.latitude1 /\ pos[1] < b.latitude2
  /\ IF b.longitude1 > b.longitude2
     THEN pos[2] > b.longitude1 \/ pos[2] < b.longitude2
     ELSE pos[2] > b.longitude1 /\ pos[2] < b.longitude2

\* the test `A_B - S_A - S_B < 1e-15` of _computeArcIntersection2 on the
\* great-circle distances between A, B and the candidate S.  On the sphere
\* d(A,B) <= d(S,A) + d(S,B), so the difference is never positive; the
\* comparison is false only when a distance is NaN, which is the case of a
\* zero vector S (the rounding of the floating-point operations is not
\* modelled)
SegmentTest(A, B, S) == S # Zero3 /\ A # Zero3 /\ B # Zero3

NoVector == [ found |-> FALSE, vector |-> Zero3 ]

\* the candidate C of _computeArcIntersection2: S1, else S2 = -S1, if it
\* lies on the arc from P1 to P2
ArcCandidate(P1, P2, S1) ==
  IF SegmentTest(P1, P2, S1) THEN [ found |-> TRUE, vector |-> S1 ]
  ELSE IF SegmentTest(P1, P2, Negate(S1))
       THEN [ found |-> TRUE, vector |-> Negate(S1) ]
       ELSE NoVector

\* the last test of _computeArcIntersection2: C lies on the arc from P3 to P4
OnSecondArc(P3, P4, C) ==
  IF C.found /\ SegmentTest(P3, P4, C.vector) THEN C ELSE NoVector

\* _computeArcIntersection2
ComputeArcIntersection2(P1, P2, P3, P4) ==
  OnSecondArc(P3, P4,
    ArcCandidate(P1, P2,
      Normalize(Cross(Normalize(Cross(P1, P2)), Normalize(Cross(P3, P4))))))

RECURSIVE FirstSide(_, _, _, _)
\* the callback of sides.some on side k, whose intersection is temp
SideOrNext(temp, P1, P2, frustrum, k) ==
  IF temp.found THEN temp ELSE FirstSide(P1, P2, frustrum, k + 1)

\* sides.some(...) of _computeIntermediaryPoint, from side k on
FirstSide(P1, P2, frustrum, k) ==
  IF k > 4 THEN NoVector
  ELSE SideOrNext(ComputeArcIntersection2(P1, P2, frustrum[k],
                                          frustrum[(k % 4) + 1]),
                  P1, P2, frustrum, k)

\* _computeIntermediaryPoint
ComputeIntermediaryPoint(P1, P2, frustrum) == FirstSide(P1, P2, frustrum, 1)

\* _getPolygonPositions: the entries before the pairs are computed
PolygonEntries(marker, b) ==
  [ i \in 1 .. Len(Catalogue[marker.tpl].polygon_rad) |->
      [ spherical |-> Catalogue[marker.tpl].polygon_rad[i],
        vector    |-> Catalogue[marker.tpl].positions3D[i],
        visible   |-> InFov(Catalogue[marker.tpl].polygon_rad[i], b) ] ]

\* a neighbour search that prefers the next entry to the previous one
VisibleNeighbourNextFirst(positions, i) ==
  LET nbVectors == Len(positions)
      prev == IF i = 1 THEN positions[nbVectors] ELSE positions[i - 1]
      next == IF i = nbVectors THEN positions[1] ELSE positions[i + 1]
  IN IF next.visible THEN [ found |-> TRUE, vector |-> next.vector ]
     ELSE IF prev.visible THEN [ found |-> TRUE, vector |-> prev.vector ]
     ELSE NoVector

\* the visible neighbour of entry i: the previous one, else the next one
VisibleNeighbour(positions, i) ==
  LET nbVectors == Len(positions)
      prev == IF i = 1 THEN positions[nbVectors] ELSE positions[i - 1]
      next == IF i = nbVectors THEN positions[1] ELSE positions[i + 1]
  IN IF prev.visible THEN [ found |-> TRUE, vector |-> prev.vector ]
     ELSE IF next.visible THEN [ found |-> TRUE, vector |-> next.vector ]
     ELSE NoVector

\* the entry pos with the intermediary point c in the place of its vector
Intermediary(pos, c) == [ pos EXCEPT !.vector = c.vector, !.visible = c.found ]

\* the callback of toBeComputed.forEach on the entry pos, whose visible
\* neighbour is nb
ClipEntry(pos, nb, frustrum) ==
  IF ~nb.found THEN pos
  ELSE Intermediary(pos, ComputeIntermediaryPoint(nb.vector, pos.vector,
                                                  frustrum))

ClipEntries(positions, frustrum) ==
  [ i \in 1 .. Len(positions) |->
      IF positions[i].visible THEN positions[i]
      ELSE ClipEntry(positions[i], VisibleNeighbour(positions, i), frustrum) ]

\* _getPolygonPositions: the entries after toBeComputed.forEach
ClippedEntries(marker, b, frustrum) ==
  ClipEntries(PolygonEntries(marker, b), frustrum)

IsVisibleEntry(pos) == pos.visible

\* a map that returns the projections last to first
ProjectEntriesReversed(kept, p) ==
  [ i \in 1 .. Len(kept) |->
      Vector3ToViewerCoords(kept[Len(kept) + 1 - i].vector, p) ]

\* the filter and map that end _getPolygonPositions
ProjectEntries(kept, p) ==
  [ i \in 1 .. Len(kept) |-> Vector3ToViewerCoords(kept[i].vector, p) ]

\* _getPolygonPositions
GetPolygonPositions(marker, b, frustrum, p) ==
  ProjectEntries(SelectSeq(ClippedEntries(marker, b, frustrum),
                           IsVisibleEntry), p)

RECURSIVE FoldMin(_, _, _)
FoldMin(positions, k, acc) ==
  IF k > Len(positions) THEN acc
  ELSE FoldMin(positions, k + 1,
               [ top  |-> JsMin(acc.top, positions[k].top),
                 left |-> JsMin(acc.left, positions[k].left) ])

RECURSIVE FoldMax(_, _, _)
FoldMax(positions, k, acc) ==
  IF k > Len(positions) THEN acc
  ELSE FoldMax(positions, k + 1,
               [ top  |-> JsMax(acc.top, positions[k].top),
                 left |-> JsMax(acc.left, positions[k].left) ])

\* _getPolygonDimensions: the marker with its new width and height and the
\* position returned
Dimensions(marker, mn, mx) ==
  [ marker EXCEPT !.width = JsSub(mx.left, mn.left),
                  !.height = JsSub(mx.top, mn.top),
                  !.position2D = Pos2D(mn.top, mn.left) ]

GetPolygonDimensions(marker, positions) ==
  Dimensions(marker,
             FoldMin(positions, 1, [ top |-> PosInf, left |-> PosInf ]),
             FoldMax(positions, 1, [ top |-> NegInf, left |-> NegInf ]))

\* the branches of the loop body on a polygon marker of projected vertices
\* positions
PlacePolygon(marker, positions, p) ==
  IF IsPolygonVisible(marker, positions, p)
  THEN [ GetPolygonDimensions(marker, positions)
           EXCEPT !.points = positions, !.cls = TRUE ]
  ELSE [ marker EXCEPT !.position2D = Null2D, !.cls = FALSE ]

\* the body of the loop of updatePositions on a polygon marker
UpdatePolygon(marker, np, p) ==
  PlacePolygon(marker,
               GetPolygonPositions(marker, np.fovBounds, np.frustrumPoints, p),
               p)

\* the branches of the loop body on a point marker without the
\* classList.remove('visible')
PlacePointKeepsClass(m, position, p) ==
  IF IsMarkerVisible(m, position, p)
  THEN [ m EXCEPT !.position2D = Pos2D(position.top, position.left),
                  !.cls = TRUE ]
  ELSE [ m EXCEPT !.position2D = Null2D ]

\* the branches of the loop body on a point marker m at position
PlacePoint(m, position, p) ==
  IF IsMarkerVisible(m, position, p)
  THEN [ m EXCEPT !.position2D = Pos2D(position.top, position.left),
                  !.cls = TRUE ]
  ELSE [ m EXCEPT !.position2D = Null2D, !.cls = FALSE ]

\* the body of the loop of updatePositions on a point marker
UpdatePoint(marker, p) ==
  PlacePoint(MeasuredMarker(marker), GetMarkerPosition(marker, p), p)

Range(f) == { f[x] : x \in DOMAIN f }

\* updatePositions: the marker objects after the pass over this.markers
UpdatePositions(h, m, p) ==
  [ i \in DOMAIN h |->
      IF i \notin Range(m) THEN h[i]
      ELSE IF IsPolygon(h[i]) THEN UpdatePolygon(h[i], PropAfterPass(p), p)
      ELSE UpdatePoint(h[i], p) ]

-----------------------------------------------------------------------------
(* The registry *)

\* the ids the callers pass: "" stands for a missing id, "constructor" is a
\* member every JavaScript object inherits from Object.prototype
Ids == { "a", "b" }

InheritedKeys == { "constructor" }

IdInputs == Ids \cup InheritedKeys \cup { "" }

\* the argument of getMarker and of the calls built on it: a string, or an
\* object that has an id
Args ==
  { [ type |-> "string", str |-> i, obj |-> [ id |-> "" ] ] : i \in IdInputs }
    \cup
  { [ type |-> "object", str |-> "", obj |-> [ id |-> i ] ] : i \in Ids }

\* !properties.id is false
IdTruthy(id) == id # ""

\* this.markers[id] on the plain object this.markers
MarkersGet(m, id) ==
  IF id \in DOMAIN m THEN [ kind |-> "marker", inst |-> m[id] ]
  ELSE IF id \in InheritedKeys THEN [ kind |-> "inherited", inst |-> 0 ]
  ELSE [ kind |-> "undefined", inst |-> 0 ]

\* var id = typeof marker === 'object' ? marker.id : marker
ArgId(arg) == IF arg.type = "object" THEN arg.obj.id ELSE arg.str

\* getMarker: the error thrown ("none" if none) and the value returned
GetMarker(m, arg) ==
  LET found == MarkersGet(m, ArgId(arg))
  IN IF found.kind = "undefined"
     THEN [ err |-> "cannot find marker", kind |-> "undefined", inst |-> 0 ]
     ELSE [ err |-> "none", kind |-> found.kind, inst |-> found.inst ]

\* addMarker without its test of this.markers[properties.id]
AddMarkerThrowsNoDuplicateTest(m, properties) ==
  IF ~IdTruthy(properties.id) THEN "missing marker id" ELSE "none"

\* the error addMarker throws before it constructs the marker
AddMarkerThrows(m, properties) ==
  IF ~IdTruthy(properties.id) THEN "missing marker id"
  ELSE IF MarkersGet(m, properties.id).kind # "undefined"
       THEN "marker already exists"
       ELSE "none"

\* the objects the program can still reach
Live(m, cur, hov) == Range(m) \cup ({ cur, hov } \ { 0 })

\* the instance number a new object takes
FreeInst(h) ==
  CHOOSE n \in 1 .. Cardinality(DOMAIN h) + 1 :
    n \notin DOMAIN h /\ \A k \in 1 .. n - 1 : k \in DOMAIN h

Restrict(h, S) == [ i \in (DOMAIN h) \cap S |-> h[i] ]

\* the outcome of a call or event: the error thrown ("none" if none), the
\* number of updatePositions passes run, the marker returned (0 if none),
\* whether psv.animate was called, the number of elements detached from
\* the surfaces, the notifications triggered, whether e.stopPropagation was
\* called and the marker put in the data of the click
Ret(err, passes, val) ==
  [ err |-> err, passes |-> passes, val |-> val, anim |-> FALSE,
    removed |-> 0, emitted |-> << >>, stopped |-> FALSE, dataMarker |-> 0 ]

ClosedTooltip ==
  [ open |-> FALSE, content |-> NoText, top |-> 0, left |-> 0, marker |-> 0 ]

\* psv.tooltip.showTooltip(config)
ShowTooltip(content, top, left, inst) ==
  [ open |-> TRUE, content |-> content, top |-> top, left |-> left,
    marker |-> inst ]

ClosedPanel == [ opened |-> FALSE, content |-> NoText ]

Init ==
  /\ markers = << >>
  /\ heap = << >>
  /\ container = {}
  /\ svg = {}
  /\ currentMarker = 0
  /\ hoveringMarker = 0
  /\ prop = [ fovBounds |-> NoBounds, frustrumPoints |-> << >> ]
  /\ psvProp \in Cameras
  /\ tooltip = ClosedTooltip
  /\ panel = ClosedPanel
  /\ ret = Ret("none", 0, 0)

\* the heap and this.prop after a call that ends with updatePositions if
\* `pass` holds; h and m are the heap and registry the call has produced
Finish(h, m, pass) ==
  /\ heap' = Restrict(IF pass THEN UpdatePositions(h, m, psvProp) ELSE h,
                      Live(m, currentMarker', hoveringMarker'))
  /\ prop' = IF pass THEN PropAfterPass(psvProp) ELSE prop

\* a call that throws err and has changed nothing
Throws(err) ==
  /\ ret' = Ret(err, 0, 0)
  /\ UNCHANGED << markers, heap, container, svg, currentMarker,
                  hoveringMarker, prop, psvProp, tooltip, panel >>

\* addMarker(properties, render)
AddMarker(properties, render) ==
  LET err == AddMarkerThrows(markers, properties)
  IN IF err # "none" THEN Throws(err)
     ELSE LET marker == NewMarker(properties)
                 nextInst == FreeInst(heap)
                 m2 == [ i \in DOMAIN markers \cup { marker.id } |->
                           IF i = marker.id THEN nextInst ELSE markers[i] ]
                 h2 == [ i \in DOMAIN heap \cup { nextInst } |->
                           IF i = nextInst THEN marker ELSE heap[i] ]
          IN /\ container' = IF IsNormal(marker)
                             THEN container \cup { nextInst }
                             ELSE container
             /\ svg' = IF IsNormal(marker) THEN svg
                       ELSE svg \cup { nextInst }
             /\ markers' = m2
             /\ UNCHANGED << currentMarker, hoveringMarker, psvProp,
                             tooltip, panel >>
             /\ Finish(h2, m2, render)
             /\ ret' = Ret("none", IF render THEN 1 ELSE 0, nextInst)

\* getMarker(marker)
GetMarkerCall(arg) ==
  /\ ret' = Ret(GetMarker(markers, arg).err, 0, GetMarker(markers, arg).inst)
  /\ UNCHANGED << markers, heap, container, svg, currentMarker,
                  hoveringMarker, prop, psvProp, tooltip, panel >>

\* getCurrentMarker()
GetCurrentMarker ==
  /\ ret' = Ret("none", 0, currentMarker)
  /\ UNCHANGED << markers, heap, container, svg, currentMarker,
                  hoveringMarker, prop, psvProp, tooltip, panel >>

\* updateMarker(input, render); input is an object with an id
UpdateMarker(input, render) ==
  LET found == GetMarker(markers, [ type |-> "object", str |-> "",
                                     obj |-> [ id |-> input.id ] ])
  IN IF found.err # "none" THEN Throws(found.err)
     ELSE IF found.kind = "inherited" THEN Throws("TypeError")
     ELSE /\ UNCHANGED << markers, container, svg, currentMarker,
                          hoveringMarker, psvProp, tooltip, panel >>
          /\ Finish([ heap EXCEPT ![found.inst] = MarkerUpdate(@, input) ],
                    markers, render)
          /\ ret' = Ret("none", IF render THEN 1 ELSE 0, found.inst)

\* a removeMarker without its `delete this.markers[marker.id]`
RemovedKeepsKey(m, c, s, t, hov, inst) ==
  [ markers   |-> m,
    container |-> c \ { inst },
    svg       |-> s \ { inst },
    tooltip   |-> IF hov = inst THEN ClosedTooltip ELSE t ]

\* the statements of removeMarker before its updatePositions, on the
\* registered marker inst: the registry, surfaces and tooltip they leave
Removed(m, c, s, t, hov, inst) ==
  [ markers   |-> [ i \in { j \in DOMAIN m : m[j] # inst } |-> m[i] ],
    container |-> c \ { inst },
    svg       |-> s \ { inst },
    tooltip   |-> IF hov = inst THEN ClosedTooltip ELSE t ]

\* removeMarker(marker, render)
RemoveMarker(arg, render) ==
  LET found == GetMarker(markers, arg)
  IN IF found.err # "none" THEN Throws(found.err)
     ELSE IF found.kind = "inherited" THEN Throws("TypeError")
     ELSE LET r == Removed(markers, container, svg, tooltip, hoveringMarker,
                           found.inst)
          IN /\ markers' = r.markers
             /\ container' = r.container
             /\ svg' = r.svg
             /\ tooltip' = r.tooltip
             /\ UNCHANGED << currentMarker, hoveringMarker, psvProp,
                             panel >>
             /\ Finish(heap, r.markers, render)
             /\ ret' = [ Ret("none", IF render THEN 1 ELSE 0, 0)
                          EXCEPT !.removed = 1 ]

\* a clearMarkers that removes the first key only
RemoveFirst(r, keys) ==
  IF keys = {} THEN r
  ELSE Removed(r.markers, r.container, r.svg, r.tooltip, hoveringMarker,
               r.markers[CHOOSE k \in keys : TRUE])

\* Object.keys(this.markers).forEach(removeMarker(key, false)), from a set
\* of keys still to remove
RECURSIVE RemoveAll(_, _)
RemoveAll(r, keys) ==
  IF keys = {} THEN r
  ELSE LET key == CHOOSE k \in keys : TRUE
       IN RemoveAll(Removed(r.markers, r.container, r.svg, r.tooltip,
                            hoveringMarker, r.markers[key]),
                    keys \ { key })

\* the passes of `if (render !== false) this.updatePositions()`
Passes(render) == IF render THEN 1 ELSE 0

\* the passes of a clearMarkers that calls removeMarker(marker) on each key
ClearPassesEachRenders(n, render) == n * Passes(TRUE) + Passes(render)

\* the passes clearMarkers(render) runs on a registry of n keys: those of
\* its n calls removeMarker(marker, false), then its own
ClearPasses(n, render) == n * Passes(FALSE) + Passes(render)

\* clearMarkers(render)
ClearMarkers(render) ==
  LET r == RemoveAll([ markers |-> markers, container |-> container,
                       svg |-> svg, tooltip |-> tooltip ], DOMAIN markers)
  IN /\ markers' = r.markers
     /\ container' = r.container
     /\ svg' = r.svg
     /\ tooltip' = r.tooltip
     /\ UNCHANGED << currentMarker, hoveringMarker, psvProp, panel >>
     /\ Finish(heap, r.markers, render)
     /\ ret' = [ Ret("none", ClearPasses(Cardinality(DOMAIN markers), render),
                     0)
                  EXCEPT !.removed = Cardinality(DOMAIN markers) ]

\* gotoMarker(marker, duration)
GotoMarker(arg) ==
  LET found == GetMarker(markers, arg)
  IN IF found.err # "none" THEN Throws(found.err)
     ELSE /\ ret' = [ Ret("none", 0, 0) EXCEPT !.anim = TRUE ]
          /\ UNCHANGED << markers, heap, container, svg,
                          currentMarker, hoveringMarker, prop, psvProp,
                          tooltip, panel >>

\* the assignment of hideMarker, showMarker, toggleMarker made to every
\* registered marker
SetVisibleOfAll(arg, value, toggle) ==
  LET found == GetMarker(markers, arg)
  IN IF found.err # "none" THEN Throws(found.err)
     ELSE /\ UNCHANGED << markers, container, svg, currentMarker,
                          hoveringMarker, psvProp, tooltip, panel >>
          /\ Finish(IF found.kind = "inherited" THEN heap
                    ELSE [ i \in DOMAIN heap |->
                             IF i \in Range(markers)
                             THEN [ heap[i] EXCEPT !.visible =
                                      IF toggle THEN XorTrue(@) ELSE value ]
                             ELSE heap[i] ],
                    markers, TRUE)
          /\ ret' = Ret("none", 1, 0)

\* hideMarker, showMarker, toggleMarker without their updatePositions
SetVisibleNoPass(arg, value, toggle) ==
  LET found == GetMarker(markers, arg)
  IN IF found.err # "none" THEN Throws(found.err)
     ELSE /\ UNCHANGED << markers, container, svg, currentMarker,
                          hoveringMarker, psvProp, tooltip, panel >>
          /\ Finish(IF found.kind = "inherited" THEN heap
                    ELSE [ heap EXCEPT ![found.inst].visible =
                             IF toggle THEN XorTrue(@) ELSE value ],
                    markers, FALSE)
          /\ ret' = Ret("none", 0, 0)

\* this.getMarker(marker).visible = value, or ^= true if `toggle`; then
\* this.updatePositions().  When getMarker returns an inherited member of
\* this.markers the assignment lands on that function object, which is no
\* part of the HUD.
SetVisible(arg, value, toggle) ==
  LET found == GetMarker(markers, arg)
  IN IF found.err # "none" THEN Throws(found.err)
     ELSE /\ UNCHANGED << markers, container, svg, currentMarker,
                          hoveringMarker, psvProp, tooltip, panel >>
          /\ Finish(IF found.kind = "inherited" THEN heap
                    ELSE [ heap EXCEPT ![found.inst].visible =
                             IF toggle THEN XorTrue(@) ELSE value ],
                    markers, TRUE)
          /\ ret' = Ret("none", 1, 0)

\* hideMarker(marker)
HideMarker(arg) == SetVisible(arg, FALSE, FALSE)

\* showMarker(marker)
ShowMarker(arg) == SetVisible(arg, TRUE, FALSE)

\* toggleMarker(marker)
ToggleMarker(arg) == SetVisible(arg, TRUE, TRUE)

\* the viewer draws a frame with the camera at p and triggers 'render':
\* handleEvent calls updatePositions
Render(p) ==
  /\ psvProp' = p
  /\ heap' = UpdatePositions(heap, markers, p)
  /\ prop' = PropAfterPass(p)
  /\ ret' = Ret("none", 1, 0)
  /\ UNCHANGED << markers, container, svg, currentMarker,
                  hoveringMarker, tooltip, panel >>

-----------------------------------------------------------------------------
(* Events *)

\* psv.config.tooltip.arrow_size
ArrowSize == 2

\* the elements an event can target: the element of an attached marker, the
\* container of the tooltip, anything else
Targets ==
  { [ el |-> "marker", inst |-> i ] : i \in container \cup svg }
    \cup { [ el |-> "tooltip", inst |-> 0 ], [ el |-> "other", inst |-> 0 ] }

\* the places of the pointer, relative to the container of the viewer
Pointers == { [ x |-> 3, y |-> 5 ], [ x |-> 6, y |-> 2 ] }

HasTooltip(marker) == Catalogue[marker.tpl].tooltip # NoText

HasContent(marker) == Catalogue[marker.tpl].content # NoText

\* an event handler that returns without any effect
Ignored ==
  /\ ret' = Ret("none", 0, 0)
  /\ UNCHANGED << markers, heap, container, svg, currentMarker,
                  hoveringMarker, prop, psvProp, tooltip, panel >>

\* the tooltip _onMouseEnter would request at the corner of the viewer
EnterTooltipAtOrigin(marker, inst) ==
  ShowTooltip(Catalogue[marker.tpl].tooltip, 0, 0, inst)

\* the tooltip _onMouseEnter requests for the marker object `marker`, the
\* instance inst
EnterTooltip(marker, inst) ==
  ShowTooltip(Catalogue[marker.tpl].tooltip, marker.position2D.top,
              marker.position2D.left, inst)

\* _onMouseEnter(e) with e.target = target
OnMouseEnter(target) ==
  IF target.el = "marker" /\ HasTooltip(heap[target.inst])
       /\ ~IsPolygon(heap[target.inst])
  THEN /\ hoveringMarker' = target.inst
       /\ IF heap[target.inst].position2D.isNull
          THEN /\ tooltip' = tooltip
               /\ ret' = Ret("TypeError", 0, 0)
          ELSE /\ tooltip' = EnterTooltip(heap[target.inst], target.inst)
               /\ ret' = Ret("none", 0, 0)
       /\ UNCHANGED << markers, container, svg, currentMarker,
                       prop, psvProp, panel >>
       /\ heap' = Restrict(heap, Live(markers, currentMarker, target.inst))
  ELSE Ignored

\* a _onMouseLeave without the early return on a polygon left for the
\* tooltip
OnMouseLeaveAlways(target, related) ==
  IF target.el = "marker"
  THEN /\ hoveringMarker' = 0
       /\ tooltip' = ClosedTooltip
       /\ ret' = Ret("none", 0, 0)
       /\ UNCHANGED << markers, container, svg, currentMarker,
                       prop, psvProp, panel >>
       /\ heap' = Restrict(heap, Live(markers, currentMarker, 0))
  ELSE Ignored

\* a _onMouseLeave that clears hoveringMarker and leaves the tooltip as it is
OnMouseLeaveKeepsTooltip(target, related) ==
  IF target.el = "marker" /\ ~(IsPolygon(heap[target.inst]) /\ related)
  THEN /\ hoveringMarker' = 0
       /\ tooltip' = tooltip
       /\ ret' = Ret("none", 0, 0)
       /\ UNCHANGED << markers, container, svg, currentMarker,
                       prop, psvProp, panel >>
       /\ heap' = Restrict(heap, Live(markers, currentMarker, 0))
  ELSE Ignored

\* _onMouseLeave(e) with e.target = target; `related` tells whether
\* e.relatedTarget is inside the container of the tooltip
OnMouseLeave(target, related) ==
  IF target.el = "marker" /\ ~(IsPolygon(heap[target.inst]) /\ related)
  THEN /\ hoveringMarker' = 0
       /\ tooltip' = ClosedTooltip
       /\ ret' = Ret("none", 0, 0)
       /\ UNCHANGED << markers, container, svg, currentMarker,
                       prop, psvProp, panel >>
       /\ heap' = Restrict(heap, Live(markers, currentMarker, 0))
  ELSE Ignored

\* the tooltip _onMouseMove would request right under the pointer
MoveTooltipAtPointer(marker, ptr) ==
  ShowTooltip(Catalogue[marker.tpl].tooltip, ptr.y, ptr.x, 0)

\* the tooltip _onMouseMove requests for the marker object `marker` with
\* the pointer at ptr (e.clientX, e.clientY less the corner of the
\* container of the viewer); its marker is the stand-in of the size of the
\* arrow
MoveTooltip(marker, ptr) ==
  ShowTooltip(Catalogue[marker.tpl].tooltip, ptr.y - ArrowSize \div 2,
              ptr.x - ArrowSize, 0)

\* _onMouseMove(e) with e.target = target and the pointer at ptr; `moving`
\* is psv.prop.moving
OnMouseMove(target, ptr, moving) ==
  LET marker ==
        IF target.el = "marker" /\ HasTooltip(heap[target.inst])
             /\ IsPolygon(heap[target.inst])
        THEN target.inst
        ELSE IF target.el = "tooltip" THEN hoveringMarker
        ELSE 0
  IN IF moving THEN Ignored
     ELSE IF marker # 0
     THEN /\ hoveringMarker' = marker
          /\ IF HasTooltip(heap[marker])
             THEN /\ tooltip' = MoveTooltip(heap[marker], ptr)
                  /\ ret' = Ret("none", 0, 0)
             ELSE /\ tooltip' = tooltip
                  /\ ret' = Ret("TypeError", 0, 0)
          /\ UNCHANGED << markers, container, svg, currentMarker,
                          prop, psvProp, panel >>
          /\ heap' = Restrict(heap, Live(markers, currentMarker, marker))
     ELSE IF hoveringMarker # 0 /\ IsPolygon(heap[hoveringMarker])
     THEN /\ tooltip' = ClosedTooltip
          /\ ret' = Ret("none", 0, 0)
          /\ UNCHANGED << markers, heap, container, svg,
                          currentMarker, hoveringMarker, prop, psvProp,
                          panel >>
     ELSE Ignored

\* the first if/else of _onClick without its `this.currentMarker = null`
SelectionKeepsCurrent(target, cur, clickEventOnMarker) ==
  IF target.el = "marker"
  THEN [ current |-> target.inst,
         emitted |-> << << "select-marker", target.inst >> >>,
         stopped |-> ~clickEventOnMarker,
         dataMarker |-> IF clickEventOnMarker THEN target.inst ELSE 0 ]
  ELSE IF cur # 0
  THEN [ current |-> cur,
         emitted |-> << << "unselect-marker", cur >> >>,
         stopped |-> FALSE, dataMarker |-> 0 ]
  ELSE [ current |-> cur, emitted |-> << >>,
         stopped |-> FALSE, dataMarker |-> 0 ]

\* the first if/else of _onClick with an unselect of the marker that was
\* selected before the select
SelectionUnselectsFirst(target, cur, clickEventOnMarker) ==
  IF target.el = "marker"
  THEN [ current |-> target.inst,
         emitted |-> IF cur # 0
                     THEN << << "unselect-marker", cur >>,
                             << "select-marker", target.inst >> >>
                     ELSE << << "select-marker", target.inst >> >>,
         stopped |-> ~clickEventOnMarker,
         dataMarker |-> IF clickEventOnMarker THEN target.inst ELSE 0 ]
  ELSE IF cur # 0
  THEN [ current |-> 0,
         emitted |-> << << "unselect-marker", cur >> >>,
         stopped |-> FALSE, dataMarker |-> 0 ]
  ELSE [ current |-> cur, emitted |-> << >>,
         stopped |-> FALSE, dataMarker |-> 0 ]

\* the first if/else of _onClick that attaches the marker to the data
\* whatever click_event_on_marker is
SelectionAlwaysAttaches(target, cur, clickEventOnMarker) ==
  IF target.el = "marker"
  THEN [ current |-> target.inst,
         emitted |-> << << "select-marker", target.inst >> >>,
         stopped |-> ~clickEventOnMarker,
         dataMarker |-> target.inst ]
  ELSE IF cur # 0
  THEN [ current |-> 0,
         emitted |-> << << "unselect-marker", cur >> >>,
         stopped |-> FALSE, dataMarker |-> 0 ]
  ELSE [ current |-> cur, emitted |-> << >>,
         stopped |-> FALSE, dataMarker |-> 0 ]

\* the first if/else of _onClick, with this.currentMarker = cur: the new
\* this.currentMarker, the notifications triggered, whether
\* e.stopPropagation was called and the marker put in data.marker
Selection(target, cur, clickEventOnMarker) ==
  IF target.el = "marker"
  THEN [ current |-> target.inst,
         emitted |-> << << "select-marker", target.inst >> >>,
         stopped |-> ~clickEventOnMarker,
         dataMarker |-> IF clickEventOnMarker THEN target.inst ELSE 0 ]
  ELSE IF cur # 0
  THEN [ current |-> 0,
         emitted |-> << << "unselect-marker", cur >> >>,
         stopped |-> FALSE, dataMarker |-> 0 ]
  ELSE [ current |-> cur, emitted |-> << >>,
         stopped |-> FALSE, dataMarker |-> 0 ]

\* the second if/else of _onClick without its e.stopPropagation
PanelAfterClickPasses(withContent, content, pnl) ==
  [ panel   |-> IF withContent THEN [ opened |-> TRUE, content |-> content ]
                ELSE IF pnl.opened THEN ClosedPanel
                ELSE pnl,
    stopped |-> FALSE ]

\* the second if/else of _onClick, with the panel in state pnl: the panel
\* it leaves and whether e.stopPropagation was called
PanelAfterClick(withContent, content, pnl) ==
  [ panel   |-> IF withContent THEN [ opened |-> TRUE, content |-> content ]
                ELSE IF pnl.opened THEN ClosedPanel
                ELSE pnl,
    stopped |-> ~withContent /\ pnl.opened ]

\* the assignments of _onClick, from the outcomes of its two if/else
Clicked(selection, request) ==
  /\ currentMarker' = selection.current
  /\ panel' = request.panel
  /\ ret' = [ Ret("none", 0, 0)
                EXCEPT !.emitted = selection.emitted,
                       !.stopped = selection.stopped \/ request.stopped,
                       !.dataMarker = selection.dataMarker ]
  /\ UNCHANGED << markers, container, svg, hoveringMarker, prop,
                  psvProp, tooltip >>
  /\ heap' = Restrict(heap, Live(markers, selection.current, hoveringMarker))

\* _onClick(data, e) with data.target = target; clickEventOnMarker is
\* psv.config.click_event_on_marker
OnClick(target, clickEventOnMarker) ==
  Clicked(Selection(target, currentMarker, clickEventOnMarker),
          PanelAfterClick(target.el = "marker" /\ HasContent(heap[target.inst]),
                          IF target.el = "marker"
                          THEN Catalogue[heap[target.inst].tpl].content
                          ELSE NoText,
                          panel))

-----------------------------------------------------------------------------
(* The specification *)

\* the properties of addMarker and updateMarker over the templates T
Properties(T) ==
  [ id : Ids, tpl : T ]
    \cup { [ id |-> i, tpl |-> CHOOSE t \in T : TRUE ] : i \in IdInputs \ Ids }

\* the calls of the public methods, with markers of the templates T, and
\* the frames drawn with the camera in one of the states C
Call(T, C) ==
  \/ \E properties \in Properties(T), render \in BOOLEAN :
       AddMarker(properties, render)
  \/ \E arg \in Args : GetMarkerCall(arg)
  \/ GetCurrentMarker
  \/ \E input \in Properties(T), render \in BOOLEAN :
       UpdateMarker(input, render)
  \/ \E arg \in Args, render \in BOOLEAN : RemoveMarker(arg, render)
  \/ \E render \in BOOLEAN : ClearMarkers(render)
  \/ \E arg \in Args : GotoMarker(arg)
  \/ \E arg \in Args : HideMarker(arg)
  \/ \E arg \in Args : ShowMarker(arg)
  \/ \E arg \in Args : ToggleMarker(arg)
  \/ \E p \in C : Render(p)

\* the mouse events of the container
Hover ==
  \/ \E target \in Targets : OnMouseEnter(target)
  \/ \E target \in Targets, related \in BOOLEAN : OnMouseLeave(target, related)
  \/ \E target \in Targets, ptr \in Pointers, moving \in BOOLEAN :
       OnMouseMove(target, ptr, moving)

\* the click event of the viewer
Click == \E target \in Targets, flag \in BOOLEAN : OnClick(target, flag)

Next == Call({ 2, 3, 4 }, Cameras)

Spec == Init /\ [][Next]_vars

\* the string argument of a call
StringArg(i) == [ type |-> "string", str |-> i, obj |-> [ id |-> "" ] ]

\* the calls that register and remove the markers the pointer meets
HoverCall ==
  \/ \E properties \in [ id : Ids, tpl : { 1, 4 } ], render \in BOOLEAN :
       AddMarker(properties, render)
  \/ \E i \in Ids, render \in BOOLEAN : RemoveMarker(StringArg(i), render)
  \/ \E render \in BOOLEAN : ClearMarkers(render)
  \/ \E p \in Cameras : Render(p)

NextHover == HoverCall \/ Hover

SpecHover == Init /\ [][NextHover]_vars

\* the object argument of a call
ObjectArg(i) == [ type |-> "object", str |-> "", obj |-> [ id |-> i ] ]

\* the calls that succeed, on point markers that carry a tooltip and a
\* content
EventCall ==
  \/ \E i \in Ids \ DOMAIN markers : AddMarker([ id |-> i, tpl |-> 1 ], TRUE)
  \/ \E i \in DOMAIN markers : UpdateMarker([ id |-> i, tpl |-> 1 ], TRUE)
  \/ \E i \in DOMAIN markers : RemoveMarker(StringArg(i), TRUE)
  \/ \E i \in DOMAIN markers : HideMarker(StringArg(i))
  \/ \E i \in DOMAIN markers : ShowMarker(StringArg(i))
  \/ \E i \in DOMAIN markers : ToggleMarker(StringArg(i))
  \/ Render(psvProp)

\* the calls, the pointer entering and leaving the markers, and the clicks,
\* with the camera at rest
NextEvents ==
  \/ EventCall
  \/ \E target \in Targets : OnMouseEnter(target)
  \/ \E target \in Targets : OnMouseLeave(target, FALSE)
  \/ \E target \in Targets : OnClick(target, TRUE)

InitFront == Init /\ psvProp.longitude = 0

SpecEvents == InitFront /\ [][NextEvents]_vars

\* the calls that put markers with and without a tooltip under the
\* pointer, each followed by its pass, and the frames drawn
PointerCall ==
  \/ \E properties \in [ id : Ids, tpl : { 1, 2, 4, 5 } ] :
       AddMarker(properties, TRUE)
  \/ \E i \in DOMAIN markers : RemoveMarker(StringArg(i), TRUE)
  \/ \E p \in Cameras : Render(p)

NextPointer == PointerCall \/ Hover

SpecPointer == Init /\ [][NextPointer]_vars

\* the calls that attach and detach markers with and without content, no
\* frame being drawn, and the clicks
ClickCall ==
  \/ \E properties \in [ id : Ids, tpl : { 1, 2, 5 } ] :
       AddMarker(properties, FALSE)
  \/ \E i \in DOMAIN markers : RemoveMarker(StringArg(i), FALSE)
  \/ GetCurrentMarker

NextClick == ClickCall \/ Click

SpecClick == Init /\ [][NextClick]_vars

\* the states of psv.prop under which the polygons are clipped: the camera
\* looks at the equator or above it, at a multiple of 45 degrees
PolygonCameras ==
  { [ longitude |-> lon, latitude |-> lat, hFov |-> 90, vFov |-> 90,
      size |-> [ width |-> 8, height |-> 8 ] ] :
      lon \in { 0, 45, 90 }, lat \in { 0, 45 } }

\* the calls that register and remove polygons, each followed by its pass,
\* and the frames drawn
PolygonCall ==
  \/ \E properties \in [ id : Ids, tpl : { 4, 5 } ] :
       AddMarker(properties, TRUE)
  \/ \E i \in DOMAIN markers : RemoveMarker(StringArg(i), TRUE)

NextPolygon == PolygonCall \/ \E p \in PolygonCameras : Render(p)

SpecPolygon == Init /\ [][NextPolygon]_vars

\* the elements a pointer can enter: the tooltip, the rest of the viewer
\* and the markers that are displayed (class 'visible')
ShownTargets ==
  { target \in Targets : target.el = "marker" => heap[target.inst].cls }

\* the mouse events of a pointer: it enters the elements that are
\* displayed only
HoverShown ==
  \/ \E target \in ShownTargets : OnMouseEnter(target)
  \/ \E target \in Targets, related \in BOOLEAN : OnMouseLeave(target, related)
  \/ \E target \in Targets, ptr \in Pointers, moving \in BOOLEAN :
       OnMouseMove(target, ptr, moving)

NextShown == HoverCall \/ HoverShown

SpecShown == Init /\ [][NextShown]_vars

-----------------------------------------------------------------------------
(* Properties of the registry *)

\* the properties addMarker is called with
AddInputs == [ id : IdInputs, tpl : Templates ]

\* C1: addMarker called with properties that carry no id throws 'missing
\* marker id', and called with an id that is a key of the registry throws
\* 'marker already exists'; in both cases the registry, the marker objects
\* and both surfaces are what they were and no updatePositions pass runs
C1_AddMarkerRejects ==
  [][\A properties \in AddInputs, render \in BOOLEAN :
       (/\ AddMarker(properties, render)
        /\ ~IdTruthy(properties.id) \/ properties.id \in DOMAIN markers)
       => /\ ret'.err = IF ~IdTruthy(properties.id) THEN "missing marker id"
                        ELSE "marker already exists"
          /\ ret'.passes = 0
          /\ UNCHANGED << markers, heap, container, svg, prop >>]_vars

\* an addMarker with a registered id has been rejected
C1_Witness ==
  /\ ret.err = "marker already exists"
  /\ markers # << >>

\* C2: the instance addMarker has registered under an id is the one
\* getMarker(id) and getMarker({id: id}) return after every later call or
\* event, until removeMarker or clearMarkers removes the id; once
\* removeMarker(id) has returned, getMarker(id) throws 'cannot find marker'
\* until addMarker registers the id again
C2_SameInstanceUntilRemoved ==
  [][/\ \A i \in DOMAIN markers :
          \/ /\ GetMarker(markers', StringArg(i)).err = "none"
             /\ GetMarker(markers', StringArg(i)).inst = markers[i]
             /\ GetMarker(markers', ObjectArg(i)).err = "none"
             /\ GetMarker(markers', ObjectArg(i)).inst = markers[i]
          \/ \E arg \in { StringArg(i), ObjectArg(i) }, render \in BOOLEAN :
               RemoveMarker(arg, render)
          \/ \E render \in BOOLEAN : ClearMarkers(render)
     /\ \A i \in DOMAIN markers :
          \A arg \in { StringArg(i), ObjectArg(i) }, render \in BOOLEAN :
            RemoveMarker(arg, render)
            => GetMarker(markers', StringArg(i)).err = "cannot find marker"
     /\ \A i \in Ids \ DOMAIN markers :
          \/ GetMarker(markers', StringArg(i)).err = "cannot find marker"
          \/ \E properties \in AddInputs, render \in BOOLEAN :
               properties.id = i /\ AddMarker(properties, render)]_vars

\* updateMarker has found and returned the instance of a marker that was
\* hovered and selected by a click since it was added, with another marker
\* registered
C2_Witness ==
  /\ ret.err = "none" /\ ret.passes = 1 /\ ret.val # 0
  /\ Cardinality(DOMAIN markers) = 2
  /\ \E i \in DOMAIN markers :
       /\ ret.val = markers[i]
       /\ currentMarker = markers[i]
       /\ hoveringMarker = markers[i]
       /\ tooltip.open

\* C4: when clearMarkers returns, with render true or false, the registry
\* is empty and getMarker fails with 'cannot find marker' on every id that
\* was registered before the call
C4_ClearEmptiesRegistry ==
  [][\A render \in BOOLEAN :
       ClearMarkers(render)
       => /\ markers' = << >>
          /\ \A arg \in Args :
               ArgId(arg) \in DOMAIN markers
               => GetMarker(markers', arg).err = "cannot find marker"]_vars

\* a clearMarkers has removed two markers at once
C4_Witness ==
  /\ ret.removed = 2
  /\ markers = << >>
  /\ container \cup svg = {}

-----------------------------------------------------------------------------
(* Properties of the projection pass *)

\* the registered marker objects
Registered == { heap[markers[i]] : i \in DOMAIN markers }

\* the last call or event ended with an updatePositions pass
AfterPass == ret.passes > 0

\* the pass has left the marker not visible
NotShown(marker) == marker.position2D.isNull /\ ~marker.cls

\* C5: after every updatePositions pass, every registered marker, point or
\* polygon, whose visible flag is false has position2D null and does not
\* carry the 'visible' class
C5_HiddenNeverProjects ==
  AfterPass => \A marker \in Registered : ~marker.visible => NotShown(marker)

\* no vertex of the polygon is inside the FOV bounds b
NoVertexInFov(marker, b) ==
  \A k \in 1 .. Len(Catalogue[marker.tpl].polygon_rad) :
    ~InFov(Catalogue[marker.tpl].polygon_rad[k], b)

\* C6: after an updatePositions pass, a polygon marker none of whose
\* vertices is inside the FOV bounds has an empty list of clipped positions,
\* a null position2D and no 'visible' class
C6_PolygonOutOfFov ==
  AfterPass =>
    \A marker \in Registered :
      (IsPolygon(marker) /\ NoVertexInFov(marker, prop.fovBounds))
      => /\ GetPolygonPositions(marker, prop.fovBounds,
                                prop.frustrumPoints, psvProp) = << >>
         /\ NotShown(marker)

\* C7: after every updatePositions pass, for every registered marker,
\* position2D is null exactly when the 'visible' class is absent
C7_Position2DIffClass ==
  AfterPass =>
    \A marker \in Registered : marker.position2D.isNull <=> ~marker.cls

\* a pass has left one marker visible and another one not visible
C7_Witness ==
  /\ AfterPass
  /\ \E marker \in Registered : ~IsPolygon(marker) /\ NotShown(marker)
  /\ \E marker \in Registered : ~marker.position2D.isNull /\ marker.cls

\* the dot product of the position of a point marker with the direction of
\* the camera
FacingDot(marker) == Dot(Catalogue[marker.tpl].position3D, Direction(psvProp))

\* C8: after an updatePositions pass, a point marker whose position3D has a
\* dot product with the view direction that is not strictly positive has
\* position2D null and no 'visible' class, whatever its visible flag, its
\* projected position and its size
C8_BehindCameraNotVisible ==
  AfterPass =>
    \A marker \in Registered :
      (~IsPolygon(marker) /\ FacingDot(marker) <= 0) => NotShown(marker)

\* a pass has run over a shown point marker that is behind the camera and
\* whose projected box meets the viewport
C8_Witness ==
  /\ AfterPass
  /\ \E marker \in Registered :
       /\ ~IsPolygon(marker)
       /\ FacingDot(marker) < 0
       /\ IsMarkerVisibleNoDot(marker, GetMarkerPosition(marker, psvProp),
                               psvProp)
       /\ NotShown(marker)

\* the box of the marker at position, from (left, top) to (left + width,
\* top + height), meets the rectangle of the viewport
BoxMeetsViewport(marker, position, p) ==
  /\ JsGe(JsAdd(position.left, marker.width), 0)
  /\ JsLe(position.left, p.size.width)
  /\ JsGe(JsAdd(position.top, marker.height), 0)
  /\ JsLe(position.top, p.size.height)

\* C9: an updatePositions pass leaves a point marker visible if and only if
\* its visible flag is set, the dot product of its position with the view
\* direction is strictly positive and its box meets the viewport
C9_PointVisibleIffBoxMeetsViewport ==
  AfterPass =>
    \A marker \in Registered :
      ~IsPolygon(marker)
      => (~marker.position2D.isNull
            <=> /\ marker.visible
                /\ FacingDot(marker) > 0
                /\ BoxMeetsViewport(marker,
                                    GetMarkerPosition(marker, psvProp),
                                    psvProp))

-----------------------------------------------------------------------------
(* Properties of the calls on an unknown id and of removeMarker *)

\* the call is one of the methods that look the marker up with getMarker
LooksUp(arg) ==
  \/ GetMarkerCall(arg)
  \/ \E tpl \in Templates, render \in BOOLEAN :
       UpdateMarker([ id |-> ArgId(arg), tpl |-> tpl ], render)
  \/ \E render \in BOOLEAN : RemoveMarker(arg, render)
  \/ HideMarker(arg)
  \/ ShowMarker(arg)
  \/ ToggleMarker(arg)
  \/ GotoMarker(arg)

\* C3: getMarker, updateMarker, removeMarker, hideMarker, showMarker,
\* toggleMarker and gotoMarker, called with an id that is not a key of the
\* registry, throw 'cannot find marker' and leave the registry, the marker
\* objects, the hovering marker, the selection and the tooltip as they were;
\* no updatePositions pass runs and no animation is started
C3_UnknownIdRejected ==
  [][\A arg \in Args :
       (LooksUp(arg) /\ ArgId(arg) \notin DOMAIN markers)
       => /\ ret'.err = "cannot find marker"
          /\ ret'.passes = 0
          /\ ~ret'.anim
          /\ UNCHANGED << markers, heap, hoveringMarker, currentMarker,
                          tooltip, prop >>]_vars

\* C10: removeMarker on the marker held in hoveringMarker closes the
\* tooltip and clears the slot, so that hoveringMarker no longer refers to
\* the marker; the element of the marker is detached from its surface and
\* the marker is deleted from the registry
C10_RemoveClearsHovering ==
  [][\A arg \in Args, render \in BOOLEAN :
       (/\ RemoveMarker(arg, render)
        /\ ArgId(arg) \in DOMAIN markers
        /\ hoveringMarker = markers[ArgId(arg)])
       => /\ ~tooltip'.open
          /\ hoveringMarker' # hoveringMarker
          /\ hoveringMarker \notin container' \cup svg'
          /\ ArgId(arg) \notin DOMAIN markers']_vars

-----------------------------------------------------------------------------
(* Properties of the clicks *)

\* C11: a click resolved to the element of a marker m makes m the current
\* selection and emits exactly one 'select-marker' notification carrying m
\* and no 'unselect-marker', whatever was selected before; getCurrentMarker
\* returns the current selection
C11_ClickSelects ==
  [][/\ \A target \in Targets, flag \in BOOLEAN :
          (OnClick(target, flag) /\ target.el = "marker")
            => /\ currentMarker' = target.inst
               /\ ret'.emitted = << << "select-marker", target.inst >> >>
     /\ GetCurrentMarker
          => ret'.val = currentMarker /\ currentMarker' = currentMarker]_vars

\* a click with click_event_on_marker on has selected a marker without
\* content while the panel was open: the panel had been opened by a click
\* on another marker, which was the selection until this click
C11_Witness ==
  /\ Cardinality(DOMAIN markers) = 2
  /\ currentMarker \in Range(markers)
  /\ ~HasContent(heap[currentMarker])
  /\ ret.emitted = << << "select-marker", currentMarker >> >>
  /\ ret.stopped /\ ret.dataMarker = currentMarker

\* C12: a click that does not resolve to a marker emits exactly one
\* 'unselect-marker' carrying the selected marker and clears the selection
\* if there is one, and emits nothing and leaves the selection null if
\* there is none; the selection becomes non-null only in a step that emits
\* 'select-marker', and an 'unselect-marker' is emitted only in a step that
\* starts with a selection and ends without one
C12_ClickOutsideUnselects ==
  [][/\ \A target \in Targets, flag \in BOOLEAN :
          (OnClick(target, flag) /\ target.el # "marker")
            => IF currentMarker # 0
               THEN /\ ret'.emitted =
                         << << "unselect-marker", currentMarker >> >>
                    /\ currentMarker' = 0
               ELSE /\ ret'.emitted = << >>
                    /\ currentMarker' = 0
     /\ (currentMarker = 0 /\ currentMarker' # 0)
          => ret'.emitted = << << "select-marker", currentMarker' >> >>
     /\ (\E k \in DOMAIN ret'.emitted :
            ret'.emitted[k][1] = "unselect-marker")
          => /\ currentMarker # 0
             /\ currentMarker' = 0
             /\ Len(ret'.emitted) = 1]_vars

C12_Witness ==
  /\ currentMarker = 0
  /\ Len(ret.emitted) = 1
  /\ ret.emitted[1][1] = "unselect-marker"
  /\ ret.emitted[1][2] \in Range(markers)

\* C13: a click on a marker that carries content leaves the panel open
\* with that content; any other click closes the panel and stops the
\* propagation of the event if the panel was open, and leaves the panel as
\* it is if it was closed
C13_PanelFollowsClick ==
  [][\A target \in Targets, flag \in BOOLEAN :
        OnClick(target, flag)
          => IF target.el = "marker" /\ HasContent(heap[target.inst])
             THEN panel' = [ opened |-> TRUE,
                             content |->
                               Catalogue[heap[target.inst].tpl].content ]
             ELSE IF panel.opened
             THEN panel' = ClosedPanel /\ ret'.stopped
             ELSE panel' = panel]_vars

\* a click outside any marker has closed the panel and cleared the
\* selection
C13_Witness ==
  /\ panel = ClosedPanel
  /\ ret.stopped
  /\ ret.dataMarker = 0
  /\ Len(ret.emitted) = 1
  /\ ret.emitted[1][1] = "unselect-marker"

\* C14 as stated: on a click resolved to a marker, click_event_on_marker
\* on attaches the marker to the data of the click and the propagation is
\* not stopped; off stops the propagation and attaches no marker
C14_FlagSelectsOutcome ==
  [][\A target \in Targets, flag \in BOOLEAN :
        (OnClick(target, flag) /\ target.el = "marker")
          => IF flag
             THEN ret'.dataMarker = target.inst /\ ~ret'.stopped
             ELSE ret'.dataMarker = 0 /\ ret'.stopped]_vars

\* C14: on a click resolved to a marker, click_event_on_marker on attaches
\* the marker to the data of the click, and the propagation is stopped
\* only if the marker carries no content and the panel was open; off stops
\* the propagation and attaches no marker
C14_FlagSelectsAttachment ==
  [][\A target \in Targets, flag \in BOOLEAN :
        (OnClick(target, flag) /\ target.el = "marker")
          => IF flag
             THEN /\ ret'.dataMarker = target.inst
                  /\ ret'.stopped
                       <=> (~HasContent(heap[target.inst]) /\ panel.opened)
             ELSE ret'.dataMarker = 0 /\ ret'.stopped]_vars

\* the marker is attached to the data of a click whose propagation the
\* closing of the panel has stopped
C14_Witness ==
  /\ ret.dataMarker # 0
  /\ ret.dataMarker = currentMarker
  /\ ret.stopped
  /\ panel = ClosedPanel

-----------------------------------------------------------------------------
(* Properties of the pointer events *)

\* the element of the marker is displayed: it carries the class 'visible'
Displayed(inst) == heap[inst].cls

C16_LeaveClosesTooltip ==
  [][\A target \in Targets, related \in BOOLEAN :
        (OnMouseLeave(target, related) /\ target.el = "marker")
          => IF IsPolygon(heap[target.inst]) /\ related
             THEN hoveringMarker' = hoveringMarker /\ tooltip' = tooltip
             ELSE hoveringMarker' = 0 /\ tooltip' = ClosedTooltip]_vars

\* the tooltip of a hovered polygon is open at the pointer (the pointer
\* may have left the polygon for the tooltip), and no mouseleave has
\* cleared it
C16_Witness ==
  /\ hoveringMarker \in Range(markers)
  /\ IsPolygon(heap[hoveringMarker])
  /\ tooltip.open /\ tooltip.marker = 0
  /\ ret = Ret("none", 0, 0)

\* the pointer is over a polygon marker that has a tooltip, or over the
\* tooltip while a polygon is the hovering marker
OverPolygon(target) ==
  \/ /\ target.el = "marker"
     /\ IsPolygon(heap[target.inst]) /\ HasTooltip(heap[target.inst])
  \/ /\ target.el = "tooltip"
     /\ hoveringMarker # 0 /\ IsPolygon(heap[hoveringMarker])

\* what C17 says of a pointer move on target with the pointer at ptr
TooltipTracksPointer(target, ptr) ==
  IF OverPolygon(target)
  THEN /\ hoveringMarker' =
            IF target.el = "marker" THEN target.inst ELSE hoveringMarker
       /\ IsPolygon(heap'[hoveringMarker'])
       /\ tooltip'.open
       /\ tooltip'.content = Catalogue[heap'[hoveringMarker'].tpl].tooltip
       /\ tooltip'.top = ptr.y - ArrowSize \div 2
       /\ tooltip'.left = ptr.x - ArrowSize
  ELSE (hoveringMarker # 0 /\ IsPolygon(heap[hoveringMarker]))
         => tooltip' = ClosedTooltip

\* C17 as stated: on each pointer move over a polygon marker that has a
\* tooltip, or over the tooltip while a polygon is the hovering marker,
\* hoveringMarker is that polygon and the tooltip is open at the pointer
\* less the offset of the arrow; on a move anywhere else while the hovering
\* marker is a polygon the tooltip is closed
C17_MoveTracksPointer ==
  [][\A target \in Targets, ptr \in Pointers, moving \in BOOLEAN :
        OnMouseMove(target, ptr, moving)
          => TooltipTracksPointer(target, ptr)]_vars

\* C17: the same of each pointer move made while the viewer is not being
\* moved (psv.prop.moving is false); a pointer move made while it is being
\* moved changes neither hoveringMarker nor the tooltip
C17_MoveTracksPointerAtRest ==
  [][\A target \in Targets, ptr \in Pointers :
        /\ OnMouseMove(target, ptr, FALSE)
             => TooltipTracksPointer(target, ptr)
        /\ OnMouseMove(target, ptr, TRUE)
             => hoveringMarker' = hoveringMarker /\ tooltip' = tooltip]_vars

\* the tooltip of the hovered polygon is open at the second place of the
\* pointer less the offset of the arrow
C17_Witness ==
  /\ hoveringMarker \in Range(markers)
  /\ IsPolygon(heap[hoveringMarker])
  /\ tooltip.open
  /\ tooltip.top = 2 - ArrowSize \div 2
  /\ tooltip.left = 6 - ArrowSize

-----------------------------------------------------------------------------
(* Properties of clearMarkers and of hideMarker, showMarker, toggleMarker *)

\* C18: clearMarkers on a registry of n >= 0 markers runs no
\* updatePositions pass while it removes the markers; it runs exactly one
\* pass, after the last removal, when render is not false (this.prop is
\* that of a pass with the camera where it is) and none at all when render
\* is false (this.prop is left as it was)
C18_ClearRunsOnePass ==
  [][\A render \in BOOLEAN :
        ClearMarkers(render)
          => /\ ret'.passes = IF render THEN 1 ELSE 0
             /\ ret'.removed = Cardinality(DOMAIN markers)
             /\ prop' = IF render THEN PropAfterPass(psvProp) ELSE prop]_vars

\* clearMarkers has removed two markers and run its one pass
C18_Witness ==
  /\ markers = << >>
  /\ ret.removed = 2
  /\ ret.passes = 1
  /\ prop.fovBounds.defined

\* the step is a call on a registered marker that returns nothing and
\* detaches nothing, as hideMarker, showMarker and toggleMarker are
ReturnsNothing == ret'.val = 0 /\ ret'.removed = 0 /\ ret'.passes = 1

\* a call on the registered marker of id i has left its visible flag v and
\* has run one pass; every other registered marker keeps its flag, every
\* marker its properties (position3D, positions3D, polygon_rad, anchor),
\* and the registry, the selection and the hovering marker are unchanged
FlagSet(i, v) ==
  /\ heap'[markers[i]].visible = v
  /\ \A j \in DOMAIN markers \ { i } :
       heap'[markers[j]].visible = heap[markers[j]].visible
  /\ \A j \in DOMAIN markers : heap'[markers[j]].tpl = heap[markers[j]].tpl
  /\ markers' = markers
  /\ currentMarker' = currentMarker
  /\ hoveringMarker' = hoveringMarker
  /\ ret'.err = "none" /\ ret'.passes = 1

NeverHidden(marker, p) ==
  IF IsPolygon(marker)
  THEN UpdatePolygon([ NewMarker([ id |-> marker.id, tpl |-> marker.tpl ])
                         EXCEPT !.visible = TRUE ], PropAfterPass(p), p)
  ELSE UpdatePoint([ NewMarker([ id |-> marker.id, tpl |-> marker.tpl ])
                       EXCEPT !.visible = TRUE ], p)

\* the step leaves the marker object inst visible, with the position2D and
\* the class of `same`
ShownAs(inst, same) ==
  /\ heap'[inst].visible
  /\ heap'[inst].position2D = same.position2D
  /\ heap'[inst].cls = same.cls

\* C20: when showMarker or toggleMarker makes a hidden marker visible
\* again, its position2D and its class 'visible' after the pass are those
\* of an identical marker under the same camera that was never hidden
\* (such a call throws nothing, returns nothing and detaches nothing)
C20_ShownAsNeverHidden ==
  [][\A arg \in Args :
        ( /\ ArgId(arg) \in DOMAIN markers
          /\ ~heap[markers[ArgId(arg)]].visible
          /\ ret'.err = "none" /\ ret'.val = 0 /\ ret'.removed = 0 )
          => \/ ShownAs(markers[ArgId(arg)],
                        NeverHidden(heap[markers[ArgId(arg)]], psvProp))
             \/ ~(ShowMarker(arg) \/ ToggleMarker(arg))]_vars

\* a marker that was created hidden has been made visible by a call that
\* ran one pass and returned nothing, next to a marker that is displayed:
\* its projection is that of the marker never hidden
C20_Witness ==
  /\ ret = Ret("none", 1, 0)
  /\ \E i, j \in DOMAIN markers :
       /\ ~Catalogue[heap[markers[i]].tpl].visible
       /\ heap[markers[i]].visible
       /\ heap[markers[i]].position2D =
            NeverHidden(heap[markers[i]], psvProp).position2D
       /\ heap[markers[i]].cls = NeverHidden(heap[markers[i]], psvProp).cls
       /\ heap[markers[j]].cls

-----------------------------------------------------------------------------
(* Properties of the clipping of the polygons *)

\* the polygon markers of the registry
Polygons == { marker \in Registered : IsPolygon(marker) }

\* the vertices of a polygon marker, as <<latitude, longitude>> and as
\* vectors
Rad(marker) == Catalogue[marker.tpl].polygon_rad

Vertices(marker) == Catalogue[marker.tpl].positions3D

\* the vertices of the marker that pass the inclusion test
Passing(marker) ==
  { k \in 1 .. Len(Rad(marker)) : InFov(Rad(marker)[k], prop.fovBounds) }

\* C21: after a pass, the list _getPolygonPositions has returned for a
\* polygon all of whose vertices pass the FOV inclusion test has one screen
\* point per vertex, in the order of the vertices, each the projection of
\* the original vertex
C21_AllInsideKeepsVertices ==
  AfterPass
    => \A marker \in Polygons :
         Passing(marker) = 1 .. Len(Rad(marker))
           => marker.points =
                [ k \in 1 .. Len(Vertices(marker)) |->
                    Vector3ToViewerCoords(Vertices(marker)[k], psvProp) ]

\* a pass has projected the three vertices of a triangle that is inside
\* the FOV bounds to three different points
C21_Witness ==
  /\ AfterPass
  /\ \E marker \in Polygons :
       /\ Passing(marker) = 1 .. Len(Rad(marker))
       /\ Len(marker.points) = 3
       /\ marker.points[1] # marker.points[2]
       /\ marker.points[2] # marker.points[3]
       /\ marker.points[1] # marker.points[3]

\* the vector S lies on the great-circle arc from A to B (the shorter one):
\* it is in the plane of A and B and between them
OnArc(A, B, S) ==
  /\ S # Zero3
  /\ IF Cross(A, B) = Zero3
     THEN Cross(A, S) = Zero3 /\ Dot(A, S) > 0
     ELSE /\ Dot(S, Cross(A, B)) = 0
          /\ Dot(Cross(A, S), Cross(A, B)) >= 0
          /\ Dot(Cross(S, B), Cross(A, B)) >= 0

\* the vector S lies on one of the four sides of the frustum
OnFrustrumSide(S) ==
  \E k \in 1 .. 4 :
    OnArc(prop.frustrumPoints[k], prop.frustrumPoints[(k % 4) + 1], S)

\* the entries of the marker after the clipping of the last pass
Clipped(marker) == ClippedEntries(marker, prop.fovBounds, prop.frustrumPoints)

\* the failing vertices of the marker that the clipping has replaced
Synthesized(marker) ==
  { k \in (1 .. Len(Rad(marker))) \ Passing(marker) : Clipped(marker)[k].visible }

\* the boundaries of the FOV window beyond which the position lies
Beyond(pos, b) ==
  { side \in { "south", "north", "left", "right" } :
      \/ side = "south" /\ pos[1] <= b.latitude1
      \/ side = "north" /\ pos[1] >= b.latitude2
      \/ /\ side = "right"
         /\ ~InFov(<< b.latitude1 + 1, pos[2] >>, [ b EXCEPT !.latitude2 = b.latitude1 + 2 ])
         /\ (pos[2] - b.longitude2) % 360 <= (b.longitude1 - pos[2]) % 360
      \/ /\ side = "left"
         /\ ~InFov(<< b.latitude1 + 1, pos[2] >>, [ b EXCEPT !.latitude2 = b.latitude1 + 2 ])
         /\ (pos[2] - b.longitude2) % 360 > (b.longitude1 - pos[2]) % 360 }

\* the boundaries that the failing vertices of the marker lie beyond
Crossed(marker) ==
  UNION { Beyond(Rad(marker)[k], prop.fovBounds) :
            k \in (1 .. Len(Rad(marker))) \ Passing(marker) }

\* the polygon has four vertices, one at least in view and one at least out
\* of view, across a single boundary
Straddles(marker) ==
  /\ Len(Rad(marker)) = 4
  /\ Passing(marker) # {}
  /\ Passing(marker) # 1 .. 4
  /\ Cardinality(Crossed(marker)) = 1

\* the projections of the entries that the clipping has kept, in the order
\* of the vertices
KeptInOrder(marker) ==
  LET kept == SelectSeq(Clipped(marker), IsVisibleEntry)
  IN [ i \in 1 .. Len(kept) |-> Vector3ToViewerCoords(kept[i].vector, psvProp) ]

\* C22: after a pass, the list of a four-vertex polygon that straddles a
\* single FOV boundary holds one or two synthesized points, each of them a
\* point of the FOV boundary standing in the place of the failing vertex
\* it replaces, among the passing vertices in their original order
C22_StraddlingQuadrilateral ==
  AfterPass
    => \A marker \in Polygons :
         Straddles(marker)
           => /\ Cardinality(Synthesized(marker)) \in { 1, 2 }
              /\ marker.points = KeptInOrder(marker)
              /\ \A k \in Synthesized(marker) :
                   OnFrustrumSide(Clipped(marker)[k].vector)

\* the count and the order that C22 states, without the place of the
\* synthesized points
C22_CountAndOrder ==
  AfterPass
    => \A marker \in Polygons :
         Straddles(marker)
           => /\ Cardinality(Synthesized(marker)) \in { 1, 2 }
              /\ marker.points = KeptInOrder(marker)

\* the cyclic neighbours of vertex k of a polygon of n vertices
PrevVertex(k, n) == IF k = 1 THEN n ELSE k - 1

NextVertex(k, n) == IF k = n THEN 1 ELSE k + 1

\* the passing neighbour of the failing vertex k, the previous one first;
\* 0 when neither passes
PassingNeighbour(marker, k) ==
  IF PrevVertex(k, Len(Rad(marker))) \in Passing(marker)
  THEN PrevVertex(k, Len(Rad(marker)))
  ELSE IF NextVertex(k, Len(Rad(marker))) \in Passing(marker)
       THEN NextVertex(k, Len(Rad(marker)))
       ELSE 0

\* the point synthesized for the failing vertex k from its passing
\* neighbour nb
Replacement(marker, k, nb) ==
  ComputeIntermediaryPoint(Vertices(marker)[nb], Vertices(marker)[k],
                           prop.frustrumPoints)

\* what stands for vertex k in the list: the vertex, its replacement, or
\* nothing
Outcome(marker, k) ==
  IF k \in Passing(marker)
  THEN [ found |-> TRUE, vector |-> Vertices(marker)[k] ]
  ELSE IF PassingNeighbour(marker, k) = 0 THEN NoVector
       ELSE Replacement(marker, k, PassingNeighbour(marker, k))

IsFound(c) == c.found

\* the list of points that the rule of C23 gives for the marker
ListByRule(marker) ==
  LET kept == SelectSeq([ k \in 1 .. Len(Rad(marker)) |-> Outcome(marker, k) ],
                        IsFound)
  IN [ i \in 1 .. Len(kept) |-> Vector3ToViewerCoords(kept[i].vector, psvProp) ]

\* C23: after a pass, the list of every polygon holds, in the order of the
\* vertices, each passing vertex unchanged, for each failing vertex with a
\* passing cyclic neighbour (the previous one preferred to the next one,
\* by the original result of the inclusion test) the one point synthesized
\* from that neighbour if the intersection was found, and nothing for a
\* failing vertex neither neighbour of which passes; it is never longer
\* than the list of the vertices
C23_ClippingRule ==
  AfterPass
    => \A marker \in Polygons :
         /\ Len(Rad(marker)) >= 3
         /\ marker.points = ListByRule(marker)
         /\ Len(marker.points) <= Len(Rad(marker))

\* a pass has clipped a polygon of four vertices to three points: one
\* vertex passes, its two neighbours are replaced and the vertex opposite,
\* which has no passing neighbour, is left out
C23_Witness ==
  /\ AfterPass
  /\ \E marker \in Polygons :
       /\ Len(Rad(marker)) = 4
       /\ Passing(marker) = { 4 }
       /\ Synthesized(marker) = { 1, 3 }
       /\ PassingNeighbour(marker, 2) = 0
       /\ Len(marker.points) = 3

\* C24: after a pass, the point returned for a failing vertex lies on the
\* great-circle arc between the vertex and its passing neighbour and on
\* the arc of one of the four sides of the frustum
C24_ReplacementOnBothArcs ==
  AfterPass
    => \A marker \in Polygons :
         \A k \in Synthesized(marker) :
           /\ OnArc(Vertices(marker)[PassingNeighbour(marker, k)],
                    Vertices(marker)[k], Clipped(marker)[k].vector)
           /\ OnFrustrumSide(Clipped(marker)[k].vector)

\* the bounds of the FOV window that C25 states for the camera p, the
\* longitudes brought into [0, 360)
WindowOf(p) ==
  [ latitude1  |-> p.latitude - p.vFov \div 2,
    latitude2  |-> p.latitude + p.vFov \div 2,
    longitude1 |-> (p.longitude - p.hFov \div 2) % 360,
    longitude2 |-> (p.longitude + p.hFov \div 2) % 360 ]

\* the inclusion of <<latitude, longitude>> in the window w as C25 states it
InWindow(latitude, longitude, w) ==
  /\ w.latitude1 < latitude
  /\ latitude < w.latitude2
  /\ \/ w.longitude1 <= w.longitude2
        /\ w.longitude1 < longitude /\ longitude < w.longitude2
     \/ w.longitude1 > w.longitude2
        /\ (longitude > w.longitude1 \/ longitude < w.longitude2)

\* C25: after a pass, this.prop.fovBounds holds the latitude and the
\* longitude of the current camera minus and plus half the field of view,
\* the longitudes brought into [0, 2*pi), and a vertex of a polygon passes
\* the inclusion test iff its latitude is strictly between the latitude
\* bounds and its longitude strictly between the longitude bounds, or, when
\* longitude1 > longitude2, above longitude1 or below longitude2
C25_InclusionTest ==
  AfterPass
    => /\ prop.fovBounds.latitude1 = WindowOf(psvProp).latitude1
       /\ prop.fovBounds.latitude2 = WindowOf(psvProp).latitude2
       /\ prop.fovBounds.longitude1 = WindowOf(psvProp).longitude1
       /\ prop.fovBounds.longitude2 = WindowOf(psvProp).longitude2
       /\ \A marker \in Polygons :
            \A k \in 1 .. Len(Rad(marker)) :
              PolygonEntries(marker, prop.fovBounds)[k].visible
                <=> InWindow(Rad(marker)[k][1], Rad(marker)[k][2],
                             WindowOf(psvProp))

\* a pass with a window that crosses the origin (longitude1 > longitude2)
\* has tested a polygon of which a vertex passes, at a longitude below
\* longitude2, and another fails
C25_Witness ==
  /\ AfterPass
  /\ prop.fovBounds.longitude1 > prop.fovBounds.longitude2
  /\ \E marker \in Polygons :
       \E k, l \in 1 .. Len(Rad(marker)) :
         /\ PolygonEntries(marker, prop.fovBounds)[k].visible
         /\ Rad(marker)[k][2] < prop.fovBounds.longitude2
         /\ ~PolygonEntries(marker, prop.fovBounds)[l].visible
         /\ Len(marker.points) = Len(Rad(marker))

-----------------------------------------------------------------------------
(* Properties of the selection and of the tooltip *)

\* C26: in every state the marker getCurrentMarker returns is null or a
\* marker of the registry: removing the selected marker leaves no
\* selection of a removed marker
C26_SelectionIsRegistered ==
  currentMarker = 0 \/ \E i \in DOMAIN markers : markers[i] = currentMarker

=============================================================================
